---- MODULE Spec2Model ----
(***************************************************************************)
(* Broadcast calendar conversions of PyBroadcastCalendar.                  *)
(*                                                                         *)
(* A datetime.date is modelled by its proleptic Gregorian ordinal          *)
(* (date.toordinal(): 0001-01-01 is 1), a timedelta by a number of days.   *)
(* An Optional[int] argument is <<>> for None and <<n>> for the integer n. *)
(***************************************************************************)
EXTENDS Integers, Sequences, FiniteSets

VARIABLES pc, call, ret

vars == <<pc, call, ret>>

\* ---------------------------------------------------------------- bounds
MinYear == 1996
MaxYear == 2025
MaxNegWeekArg == 2
MaxWeekArg == 55
MaxNegMonthArg == 1
MaxMonthArg == 14
WindowMargin == 10
WeekCountMinYear == 1950
WeekCountMaxYear == 2200

\* ------------------------------------------------------ program constants
MAX_MONTHS == 12
DAYS_IN_A_WEEK == 7

\* ------------------------------------------------------- datetime.date
IsLeap(y) == (y % 4 = 0) /\ ((y % 100 # 0) \/ (y % 400 = 0))

DAYS_BEFORE_MONTH == <<0, 31, 59, 90, 120, 151, 181, 212, 243, 273, 304, 334>>

DaysInMonth(y, m) ==
    IF m = 2 THEN (IF IsLeap(y) THEN 29 ELSE 28)
    ELSE IF m \in {4, 6, 9, 11} THEN 30 ELSE 31

DaysBeforeYear(y) ==
    (y - 1) * 365 + ((y - 1) \div 4) - ((y - 1) \div 100) + ((y - 1) \div 400)

DaysBeforeMonth(y, m) ==
    DAYS_BEFORE_MONTH[m] + (IF m > 2 /\ IsLeap(y) THEN 1 ELSE 0)

\* date(y, m, d)
Date(y, m, d) == DaysBeforeYear(y) + DaysBeforeMonth(y, m) + d

\* the (year, month, day) of day r1 (from 0) of year y, m0 being the
\* estimate (r1 + 50) >> 5 of its month
YMDInYear(y, r1, m0) ==
    IF DaysBeforeMonth(y, m0) > r1
    THEN [year |-> y, month |-> m0 - 1,
          day |-> r1 - (DaysBeforeMonth(y, m0) - DaysInMonth(y, m0 - 1)) + 1]
    ELSE [year |-> y, month |-> m0, day |-> r1 - DaysBeforeMonth(y, m0) + 1]

\* n100 and n1 count the whole centuries and years before the day in its
\* 400 and 4 year cycle; 4 of either is the last day of a leap cycle
YMDOfYear(y, n100, n1, r1) ==
    IF n1 = 4 \/ n100 = 4
    THEN [year |-> y - 1, month |-> 12, day |-> 31]
    ELSE YMDInYear(y, r1, (r1 + 50) \div 32)

YMDOf4(y400, n100, r100) ==
    YMDOfYear(y400 + n100 * 100 + (r100 \div 1461) * 4
                  + ((r100 % 1461) \div 365) + 1,
              n100, (r100 % 1461) \div 365, (r100 % 1461) % 365)

YMDOf400(n400, r400) ==
    YMDOf4(n400 * 400, r400 \div 36524, r400 % 36524)

\* the (year, month, day) of an ordinal
YMD(n) == YMDOf400((n - 1) \div 146097, (n - 1) % 146097)

Year(n) == YMD(n).year
Month(n) == YMD(n).month
Day(n) == YMD(n).day

\* date.weekday(): Monday is 0, Sunday is 6
Weekday(n) == (n + 6) % 7

\* int(x / k + 1) for integers x and k > 0: int() truncates towards zero
IntDivPlusOne(x, k) ==
    LET s == x + k IN IF s >= 0 THEN s \div k ELSE -((-s) \div k)

\* ------------------------------------------------------- Optional[int]
None == <<>>
Some(x) == <<x>>
Truthy(o) == o # None /\ o[1] # 0

\* =========================================================== bcc_main.py
week_dates_array(monday_date) ==
    [wkd \in 1..DAYS_IN_A_WEEK |-> monday_date + (wkd - 1)]

week_start(date_) == date_ - Weekday(date_)

\* list.sort(key=lambda x: x.day): a stable sort on the day of the month
RECURSIVE InsertByDay(_, _)
InsertByDay(x, s) ==
    IF s = <<>> THEN <<x>>
    ELSE IF Day(x) <= Day(Head(s)) THEN <<x>> \o s
    ELSE <<Head(s)>> \o InsertByDay(x, Tail(s))

RECURSIVE SortByDay(_)
SortByDay(s) ==
    IF s = <<>> THEN <<>> ELSE InsertByDay(Head(s), SortByDay(Tail(s)))

\* mutant: the year and month of the date itself, not of its week
calc_year_month_ids_per_day(date_) ==
    [year_id |-> Year(date_),
     month_id |-> Month(date_),
     week_start |-> week_start(date_)]

calc_year_month_ids(date_) ==
    LET week_start_    == week_start(date_)
        week_dates     == SortByDay(week_dates_array(week_start_))
        min_month_day_ == week_dates[1]
    IN  [year_id |-> Year(min_month_day_),
         month_id |-> Month(min_month_day_),
         week_start |-> week_start_]

\* mutant: the year counted from January 1, not from the Monday of its week
calc_week_id_from_jan_first(year_id_, monday_date) ==
    LET year_jan_first == Date(year_id_, 1, 1)
    IN  [week_id |-> IntDivPlusOne(monday_date - year_jan_first,
                                   DAYS_IN_A_WEEK),
         year_start |-> year_jan_first]

calc_week_id(year_id_, monday_date) ==
    LET year_jan_first    == Date(year_id_, 1, 1)
        year_start_monday == calc_year_month_ids(year_jan_first).week_start
    IN  [week_id |-> IntDivPlusOne(monday_date - year_start_monday,
                                   DAYS_IN_A_WEEK),
         year_start |-> year_start_monday]

bcweek_values(date_) ==
    LET ym      == calc_year_month_ids(date_)
        wk      == calc_week_id(ym.year_id, ym.week_start)
        qtr_i_  == ym.month_id \div 4
    IN  [year_id |-> ym.year_id,
         qtr_id |-> qtr_i_ + 1,
         month_id |-> ym.month_id,
         week_id |-> wk.week_id,
         day_id |-> (date_ - wk.year_start) + 1]

\* the fields of bcc_main.BroadcastDate after __post_init__
BroadcastDate(report_date) ==
    LET v == bcweek_values(report_date)
    IN  [report_date |-> report_date,
         year_id |-> v.year_id,
         qtr_id |-> v.qtr_id,
         month_id |-> v.month_id,
         week_id |-> v.week_id,
         day_id |-> v.day_id,
         weekday_id |-> Weekday(report_date) + 1]

\* mutant: the week of next_bc_year_start itself, not of the day before it
max_week_id_no_day_back(year_id_) ==
    LET next_bc_year_start == week_start(Date(year_id_ + 1, 1, 1))
    IN  BroadcastDate(next_bc_year_start).week_id

max_week_id(year_id_) ==
    LET next_bc_year_start == week_start(Date(year_id_ + 1, 1, 1))
    IN  BroadcastDate(next_bc_year_start - 1).week_id

Returned(v) == [raised |-> "none", msg |-> "none", val |-> v]
Raised(cls, m) == [raised |-> cls, msg |-> m, val |-> None]

\* mutant: timedelta(weeks=week_id) in place of timedelta(weeks=week_id - 1)
reverse_broadcastdate_off_by_one(year_id, week_id, month_id) ==
    LET broadcast_year_start == week_start(Date(year_id, 1, 1))
    IN  IF ~(Truthy(week_id) \/ Truthy(month_id))
        THEN Returned(Some(broadcast_year_start))
        ELSE IF Truthy(week_id)
        THEN IF week_id[1] > max_week_id(year_id)
             THEN Raised("BroadcastCalendarValErr", "week_overflow")
             ELSE Returned(Some(broadcast_year_start
                                + DAYS_IN_A_WEEK * week_id[1]))
        ELSE IF Truthy(month_id)
        THEN IF ~(1 <= month_id[1] /\ month_id[1] <= MAX_MONTHS)
             THEN Raised("BroadcastCalendarValErr", "invalid_month")
             ELSE Returned(Some(week_start(Date(year_id, month_id[1], 1))))
        ELSE Returned(None)

reverse_broadcastdate(year_id, week_id, month_id) ==
    LET broadcast_year_start == week_start(Date(year_id, 1, 1))
    IN  IF ~(Truthy(week_id) \/ Truthy(month_id))
        THEN Returned(Some(broadcast_year_start))
        ELSE IF Truthy(week_id)
        THEN IF week_id[1] > max_week_id(year_id)
             THEN Raised("BroadcastCalendarValErr", "week_overflow")
             ELSE Returned(Some(broadcast_year_start
                                + DAYS_IN_A_WEEK * (week_id[1] - 1)))
        ELSE IF Truthy(month_id)
        THEN IF ~(1 <= month_id[1] /\ month_id[1] <= MAX_MONTHS)
             THEN Raised("BroadcastCalendarValErr", "invalid_month")
             ELSE Returned(Some(week_start(Date(year_id, month_id[1], 1))))
        ELSE Returned(None)

\* ============================================================= bcdate.py
WKDAY_ABBRV_MAP == <<"mo", "tu", "we", "th", "fr", "sa", "su">>

generate_week_start(date__) == date__ - Weekday(date__)

\* the rows of one year's months month_range[1]..month_range[2]
generate_month_table(year_, month_range) ==
    [i \in 1..(month_range[2] - month_range[1] + 1) |->
        LET month_id == month_range[1] + i - 1
        IN  [year |-> year_,
             month_id |-> month_id,
             month_start |-> generate_week_start(Date(year_, month_id, 1))]]

generate_three_years(year__) ==
    <<generate_month_table(year__ - 1, <<12, 12>>),
      generate_month_table(year__, <<1, 12>>),
      generate_month_table(year__ + 1, <<1, 1>>)>>

\* the DataFrame as the sequence of its rows
date_df(date_df_date) ==
    LET t == generate_three_years(Year(date_df_date))
    IN  t[1] \o t[2] \o t[3]

SetMax(S) == CHOOSE x \in S : \A z \in S : z <= x
SetMin(S) == CHOOSE x \in S : \A z \in S : x <= z

MonthStarts(dates_df_) == {dates_df_[i].month_start : i \in DOMAIN dates_df_}

\* mutant: month_start.lt(date_) in place of month_start.le(date_)
bc_date_values_lt(date_, dates_df_) ==
    LET lt == {ms \in MonthStarts(dates_df_) : ms < date_}
    IN  IF lt = {}
        THEN [found |-> FALSE, year_id |-> 0, year_start |-> 0,
              month_id |-> 0, month_start |-> 0]
        ELSE LET month_start_ == SetMax(lt)
                 first == SetMin({i \in DOMAIN dates_df_ :
                                    dates_df_[i].month_start = month_start_})
                 year_id_  == dates_df_[first].year
             IN  [found |-> TRUE, year_id |-> year_id_,
                  year_start |->
                     SetMin({dates_df_[i].month_start :
                               i \in {j \in DOMAIN dates_df_ :
                                        dates_df_[j].year = year_id_}}),
                  month_id |-> dates_df_[first].month_id,
                  month_start |-> month_start_]

\* found is FALSE where no month_start is <= date_: .max() of the empty
\* selection is NaN, no row equals it and .values[0] raises IndexError
bc_date_values(date_, dates_df_) ==
    LET le == {ms \in MonthStarts(dates_df_) : ms <= date_}
    IN  IF le = {}
        THEN [found |-> FALSE, year_id |-> 0, year_start |-> 0,
              month_id |-> 0, month_start |-> 0]
        ELSE LET month_start_ == SetMax(le)
                 first == SetMin({i \in DOMAIN dates_df_ :
                                    dates_df_[i].month_start = month_start_})
                 month_id_ == dates_df_[first].month_id
                 year_id_  == dates_df_[first].year
                 year_start_ ==
                     SetMin({dates_df_[i].month_start :
                               i \in {j \in DOMAIN dates_df_ :
                                        dates_df_[j].year = year_id_}})
             IN  [found |-> TRUE, year_id |-> year_id_,
                  year_start |-> year_start_, month_id |-> month_id_,
                  month_start |-> month_start_]

get_qtr_id(month_id_) == IntDivPlusOne(month_id_ - (month_id_ % 3), 3)

get_year_day_id(report_date_, year_start) == (report_date_ - year_start) + 1

get_weekday_id(year_day_id_) == ((year_day_id_ - 1) % 7) + 1

get_week_id(year_day_id_, weekday_id_) ==
    IntDivPlusOne(year_day_id_ - weekday_id_, 7)

get_week_start(report_date_, weekday_id_) == report_date_ - (weekday_id_ - 1)

\* mutant: the range check without its upper limit
post_init_no_max(report_date, dates_df, limit_error) ==
    LET min_date == SetMin(MonthStarts(dates_df)) + 7
    IN  IF ~(min_date <= report_date)
        THEN Raised(limit_error, "out_of_range")
        ELSE
        LET cur  == bc_date_values(report_date, dates_df)
            year_day_id == get_year_day_id(report_date, cur.year_start)
            weekday_id  == get_weekday_id(year_day_id)
            prev_wk_date == report_date - 7
            next_wk_date == report_date + 7
            prv  == bc_date_values(prev_wk_date, dates_df)
            nxt  == bc_date_values(next_wk_date, dates_df)
            prev_yd == get_year_day_id(prev_wk_date, prv.year_start)
            next_yd == get_year_day_id(next_wk_date, nxt.year_start)
        IN  IF ~(cur.found /\ prv.found /\ nxt.found)
            THEN Raised("IndexError", "empty_selection")
            ELSE Returned(
               [report_date |-> report_date,
                year_id |-> cur.year_id,
                year_start |-> cur.year_start,
                month_id |-> cur.month_id,
                month_start |-> cur.month_start,
                year_day_id |-> year_day_id,
                weekday_id |-> weekday_id,
                week_id |-> get_week_id(year_day_id, weekday_id),
                week_start |-> get_week_start(report_date, weekday_id),
                wkday_abbr |-> WKDAY_ABBRV_MAP[weekday_id],
                qtr_id |-> get_qtr_id(cur.month_id),
                prev_wk_year_id |-> prv.year_id,
                next_wk_year_id |-> nxt.year_id,
                prev_wk_week_id |->
                    get_week_id(prev_yd, get_weekday_id(prev_yd)),
                next_wk_week_id |->
                    get_week_id(next_yd, get_weekday_id(next_yd)),
                prev_wk_qtr_id |-> get_qtr_id(prv.month_id),
                next_wk_qtr_id |-> get_qtr_id(nxt.month_id)])

\* __post_init__ of the table backed BroadcastDate over a given table;
\* limit_error is the class raised by the range check
post_init(report_date, dates_df, limit_error) ==
    LET min_date == SetMin(MonthStarts(dates_df)) + 7
        max_date == SetMax(MonthStarts(dates_df))
    IN  IF ~(min_date <= report_date /\ report_date <= max_date)
        THEN Raised(limit_error, "out_of_range")
        ELSE
        LET cur  == bc_date_values(report_date, dates_df)
            year_day_id == get_year_day_id(report_date, cur.year_start)
            weekday_id  == get_weekday_id(year_day_id)
            prev_wk_date == report_date - 7
            next_wk_date == report_date + 7
            prv  == bc_date_values(prev_wk_date, dates_df)
            nxt  == bc_date_values(next_wk_date, dates_df)
            prev_yd == get_year_day_id(prev_wk_date, prv.year_start)
            next_yd == get_year_day_id(next_wk_date, nxt.year_start)
        IN  IF ~(cur.found /\ prv.found /\ nxt.found)
            THEN Raised("IndexError", "empty_selection")
            ELSE Returned(
               [report_date |-> report_date,
                year_id |-> cur.year_id,
                year_start |-> cur.year_start,
                month_id |-> cur.month_id,
                month_start |-> cur.month_start,
                year_day_id |-> year_day_id,
                weekday_id |-> weekday_id,
                week_id |-> get_week_id(year_day_id, weekday_id),
                week_start |-> get_week_start(report_date, weekday_id),
                wkday_abbr |-> WKDAY_ABBRV_MAP[weekday_id],
                qtr_id |-> get_qtr_id(cur.month_id),
                prev_wk_year_id |-> prv.year_id,
                next_wk_year_id |-> nxt.year_id,
                prev_wk_week_id |->
                    get_week_id(prev_yd, get_weekday_id(prev_yd)),
                next_wk_week_id |->
                    get_week_id(next_yd, get_weekday_id(next_yd)),
                prev_wk_qtr_id |-> get_qtr_id(prv.month_id),
                next_wk_qtr_id |-> get_qtr_id(nxt.month_id)])

\* bcdate.BroadcastDate: the table is generated around the report date
TableBroadcastDate(report_date) ==
    post_init(report_date, date_df(report_date), "_DateTableLimitError")

\* bcdate_dataclass.BroadcastDate: the table is loaded from dates.csv
DataclassBroadcastDate(report_date, dates_df) ==
    post_init(report_date, dates_df, "DateTableLimitError")

\* ================================================================ calls
Years == MinYear..MaxYear
Dates == Date(MinYear, 1, 1)..Date(MaxYear, 12, 31)
WeekArgs == {None} \cup {Some(w) : w \in ((-MaxNegWeekArg)..MaxWeekArg) \cup {999}}
MonthArgs == {None} \cup {Some(m) : m \in (-MaxNegMonthArg)..MaxMonthArg}

\* the month table kept for pivot year y
PivotTable(y) == date_df(Date(y, 1, 1))

\* the dates queried against the table of pivot year y
PivotDates(y) ==
    (SetMin(MonthStarts(PivotTable(y))) - WindowMargin)
        ..(SetMax(MonthStarts(PivotTable(y))) + WindowMargin)

Call(op, d, y, w, m, p) ==
    [op |-> op, date_ |-> d, year_id |-> y, week_id |-> w, month_id |-> m,
     pivot |-> p]

\* the years whose week count is asked for
WeekCountYears == WeekCountMinYear..WeekCountMaxYear

NoRet == Returned(None)

Init ==
    /\ pc = "call"
    /\ ret = NoRet
    /\ \/ \E d \in Dates : call = Call("BroadcastDate", d, 0, None, None, 0)
       \/ \E y \in Years, w \in WeekArgs, m \in MonthArgs :
             call = Call("reverse_broadcastdate", 0, y, w, m, 0)
       \/ \E d \in Dates :
             call = Call("bcdate.BroadcastDate", d, 0, None, None, 0)
       \/ \E y \in Years : \E d \in PivotDates(y) :
             call = Call("bcdate_dataclass.BroadcastDate", d, 0, None, None, y)
       \/ \E y \in Years : \E d \in PivotDates(y) :
             call = Call("bc_date_values", d, 0, None, None, y)
       \/ \E m \in 1..MAX_MONTHS :
             call = Call("get_qtr_id", 0, 0, None, Some(m), 0)
       \/ \E y \in WeekCountYears :
             call = Call("_max_week_id", 0, y, None, None, 0)

DoBroadcastDate ==
    /\ pc = "call"
    /\ call.op = "BroadcastDate"
    /\ ret' = Returned(BroadcastDate(call.date_))
    /\ pc' = "done"
    /\ UNCHANGED call

DoReverse ==
    /\ pc = "call"
    /\ call.op = "reverse_broadcastdate"
    /\ ret' = reverse_broadcastdate(call.year_id, call.week_id, call.month_id)
    /\ pc' = "done"
    /\ UNCHANGED call

DoTableBroadcastDate ==
    /\ pc = "call"
    /\ call.op = "bcdate.BroadcastDate"
    /\ ret' = TableBroadcastDate(call.date_)
    /\ pc' = "done"
    /\ UNCHANGED call

DoDataclassBroadcastDate ==
    /\ pc = "call"
    /\ call.op = "bcdate_dataclass.BroadcastDate"
    /\ ret' = DataclassBroadcastDate(call.date_, PivotTable(call.pivot))
    /\ pc' = "done"
    /\ UNCHANGED call

DoBcDateValues ==
    /\ pc = "call"
    /\ call.op = "bc_date_values"
    /\ ret' = LET v == bc_date_values(call.date_, PivotTable(call.pivot))
              IN  IF v.found THEN Returned(v)
                  ELSE Raised("IndexError", "empty_selection")
    /\ pc' = "done"
    /\ UNCHANGED call

DoGetQtrId ==
    /\ pc = "call"
    /\ call.op = "get_qtr_id"
    /\ ret' = Returned(Some(get_qtr_id(call.month_id[1])))
    /\ pc' = "done"
    /\ UNCHANGED call

DoMaxWeekId ==
    /\ pc = "call"
    /\ call.op = "_max_week_id"
    /\ ret' = Returned(Some(max_week_id(call.year_id)))
    /\ pc' = "done"
    /\ UNCHANGED call

Next ==
    \/ DoBroadcastDate
    \/ DoReverse
    \/ DoTableBroadcastDate
    \/ DoDataclassBroadcastDate
    \/ DoBcDateValues
    \/ DoGetQtrId
    \/ DoMaxWeekId

Spec == Init /\ [][Next]_vars

Done(op) == pc = "done" /\ call.op = op

\* ================================================================ claims
\* the Monday on or before d, found without week_start
MondayOnOrBefore(d) == CHOOSE m \in (d - 6)..d : Weekday(m) = 0

\* the date of the smallest day of the month in the Monday week of d
MinDayOfWeekOf(d) ==
    LET W == MondayOnOrBefore(d)..(MondayOnOrBefore(d) + 6)
    IN  CHOOSE x \in W : \A z \in W : Day(x) <= Day(z)

TableMin(t) == SetMin(MonthStarts(t))
TableMax(t) == SetMax(MonthStarts(t))

\* C1: week round trip. For week_id in 1..max_week_id(year_id) and no
\* month_id, reverse_broadcastdate returns a date whose forward index has
\* the week_id and the year_id that were passed in.
C1_WeekRoundTrip ==
    (/\ Done("reverse_broadcastdate")
     /\ call.month_id = None
     /\ call.week_id # None
     /\ 1 <= call.week_id[1]
     /\ call.week_id[1] <= max_week_id(call.year_id))
    => /\ ret.raised = "none"
       /\ ret.val # None
       /\ bcweek_values(ret.val[1]).week_id = call.week_id[1]
       /\ bcweek_values(ret.val[1]).year_id = call.year_id

C1_Witness ==
    /\ Done("reverse_broadcastdate")
    /\ call.month_id = None
    /\ call.week_id = Some(53)
    /\ max_week_id(call.year_id) = 53
    /\ ret.raised = "none"
    /\ bcweek_values(ret.val[1]).week_id = 53

\* C2: month assignment rule. The (year_id, month_id) of a date are the
\* Gregorian year and month of the date with the smallest day of the month
\* in its Monday week, and every date of that week gets the same pair.
C2_MonthAssignment ==
    Done("BroadcastDate") =>
        LET d  == call.date_
            md == MinDayOfWeekOf(d)
            ws == MondayOnOrBefore(d)
        IN  /\ ret.val.year_id = Year(md)
            /\ ret.val.month_id = Month(md)
            /\ \A d2 \in ws..(ws + 6) :
                  /\ calc_year_month_ids(d2).year_id = ret.val.year_id
                  /\ calc_year_month_ids(d2).month_id = ret.val.month_id

\* 2022-12-26, the Monday of the week of 2023-01-01, is in 2023 month 1
C2_Witness ==
    /\ Done("BroadcastDate")
    /\ call.date_ = Date(2022, 12, 26)
    /\ ret.val.year_id = 2023
    /\ ret.val.month_id = 1

\* C3: the quarter_id of the forward conversion is
\* floor((month_id - 1) / 3) + 1.
C3_QuarterCanonical ==
    Done("BroadcastDate") =>
        ret.val.qtr_id = ((ret.val.month_id - 1) \div 3) + 1

\* C4: for every supplied week_id, reverse_broadcastdate fails with the
\* week overflow error when week_id > max_week_id(year_id) and otherwise
\* returns the Monday on or before January 1 plus (week_id - 1) weeks.
C4_WeekOverflowOrOffset ==
    (Done("reverse_broadcastdate") /\ call.week_id # None) =>
        IF call.week_id[1] > max_week_id(call.year_id)
        THEN ret = Raised("BroadcastCalendarValErr", "week_overflow")
        ELSE ret = Returned(Some(MondayOnOrBefore(Date(call.year_id, 1, 1))
                                 + 7 * (call.week_id[1] - 1)))

\* C5: with a month_id and no week_id, every month_id outside 1..12 fails
\* with the invalid month error and every month_id in 1..12 returns the
\* Monday on or before the first of that month.
C5_MonthValidated ==
    (/\ Done("reverse_broadcastdate")
     /\ call.week_id = None
     /\ call.month_id # None)
    => IF call.month_id[1] \in 1..12
       THEN ret = Returned(Some(MondayOnOrBefore(
                                   Date(call.year_id, call.month_id[1], 1))))
       ELSE ret = Raised("BroadcastCalendarValErr", "invalid_month")

\* the (year_id, quarter_id, week_id) of the forward index of d, the
\* quarter taken with the quarter function of the table backed module
ForwardTriple(d) ==
    LET v == bcweek_values(d)
    IN  <<v.year_id, get_qtr_id(v.month_id), v.week_id>>

\* C6: adjacency. The prev_wk_ fields of an accepted report date d are the
\* year, quarter and week ids of the forward index of d - 7 days and the
\* next_wk_ fields those of d + 7 days.
C6_Adjacency ==
    (Done("bcdate.BroadcastDate") /\ ret.raised = "none") =>
        /\ <<ret.val.prev_wk_year_id, ret.val.prev_wk_qtr_id,
             ret.val.prev_wk_week_id>> = ForwardTriple(call.date_ - 7)
        /\ <<ret.val.next_wk_year_id, ret.val.next_wk_qtr_id,
             ret.val.next_wk_week_id>> = ForwardTriple(call.date_ + 7)

\* C7: the generated month table covers every report date: constructing the
\* table backed BroadcastDate never raises _DateTableLimitError.
C7_TableCoversReportDate ==
    Done("bcdate.BroadcastDate") => ret.raised # "_DateTableLimitError"

\* C8: table lookup is recomputation. For a date inside the window of the
\* table of a pivot year, the (year, month_id) of the row with the greatest
\* month_start <= d is the (year_id, month_id) of calc_year_month_ids(d).
C8_LookupIsRecomputation ==
    (/\ Done("bc_date_values")
     /\ TableMin(PivotTable(call.pivot)) <= call.date_
     /\ call.date_ <= TableMax(PivotTable(call.pivot)))
    => /\ ret.raised = "none"
       /\ ret.val.year_id = calc_year_month_ids(call.date_).year_id
       /\ ret.val.month_id = calc_year_month_ids(call.date_).month_id

\* a date inside the window whose broadcast month is not its Gregorian one
C8_Witness ==
    /\ Done("bc_date_values")
    /\ TableMin(PivotTable(call.pivot)) <= call.date_
    /\ call.date_ < TableMax(PivotTable(call.pivot))
    /\ ret.raised = "none"
    /\ ret.val.year_id = call.pivot
    /\ ret.val.month_id # Month(call.date_)

\* the table a table backed BroadcastDate call looks its date up in
CallTable ==
    IF call.op = "bcdate.BroadcastDate" THEN date_df(call.date_)
    ELSE PivotTable(call.pivot)

TableBacked == Done("bcdate.BroadcastDate") \/ Done("bcdate_dataclass.BroadcastDate")

LimitErrors == {"_DateTableLimitError", "DateTableLimitError"}

\* C9 as stated: the table backed lookup fails with the table bounds error
\* for every date d < min(month_start) and every d >= max(month_start).
C9_FailsOutsideHalfOpenWindow ==
    (/\ TableBacked
     /\ \/ call.date_ < TableMin(CallTable)
        \/ call.date_ >= TableMax(CallTable))
    => ret.raised \in LimitErrors

\* C9 as amended: the table backed lookup fails with the table bounds error
\* for every date d < min(month_start) and every d > max(month_start); the
\* date equal to max(month_start) is accepted and gets an index.
C9_FailsOutsideClosedWindow ==
    TableBacked =>
        /\ (\/ call.date_ < TableMin(CallTable)
            \/ call.date_ > TableMax(CallTable))
           => ret.raised \in LimitErrors
        /\ call.date_ = TableMax(CallTable) => ret.raised = "none"

\* a report date after the last month_start of its own generated table
C9_Witness ==
    /\ Done("bcdate.BroadcastDate")
    /\ call.date_ > TableMax(CallTable)
    /\ ret.raised = "_DateTableLimitError"

\* C10: get_qtr_id returns a quarter in 1..4 for every month_id in 1..12
\* and groups the months in four groups of three consecutive months.
C10_QtrEvenGroups ==
    Done("get_qtr_id") =>
        LET q == ret.val[1]
            G == {m \in 1..12 : get_qtr_id(m) = q}
        IN  /\ q \in 1..4
            /\ G = (3 * q - 2)..(3 * q)

\* C11: week count bound. For every year_id from 1950 to 2200,
\* _max_week_id(year_id) is 52 or 53.
C11_WeekCountBound ==
    Done("_max_week_id") => ret.val[1] \in {52, 53}

\* a year of 53 weeks: the next January 1 is a Monday, 371 days after the
\* Monday that starts the year
C11_Witness ==
    /\ Done("_max_week_id")
    /\ ret.val = Some(53)
    /\ MondayOnOrBefore(Date(call.year_id + 1, 1, 1))
         - MondayOnOrBefore(Date(call.year_id, 1, 1)) = 371

\* C12: day of year monotonicity. For consecutive dates d and d + 1: with
\* the same year_id, day_id(d + 1) = day_id(d) + 1; with different
\* year_ids, d + 1 is the Monday that starts its broadcast year and
\* day_id(d + 1) = 1; and day_id is 1 only at the start of a year.
C12_DayOfYearMonotone ==
    Done("BroadcastDate") =>
        LET d == call.date_
            a == ret.val
            b == bcweek_values(d + 1)
        IN  /\ a.year_id = b.year_id => b.day_id = a.day_id + 1
            /\ a.year_id # b.year_id =>
                  /\ d + 1 = MondayOnOrBefore(Date(b.year_id, 1, 1))
                  /\ b.day_id = 1
            /\ a.day_id = 1 => d = MondayOnOrBefore(Date(a.year_id, 1, 1))

\* the last day of a broadcast year that ends inside December
C12_Witness ==
    /\ Done("BroadcastDate")
    /\ bcweek_values(call.date_ + 1).year_id = ret.val.year_id + 1
    /\ bcweek_values(call.date_ + 1).day_id = 1
    /\ ret.val.day_id \in {364, 371}
    /\ Month(call.date_ + 1) = 12

\* C13: reverse resolution is an exact inverse at week granularity. For
\* every year_id and every integer week_id (0 and negative ones included)
\* passed without a month_id, reverse_broadcastdate either fails or returns
\* a Monday whose forward index has the year_id and the week_id passed in.
C13_ReverseExactInverse ==
    (/\ Done("reverse_broadcastdate")
     /\ call.month_id = None
     /\ call.week_id # None)
    => \/ ret.raised # "none"
       \/ /\ ret.val # None
          /\ Weekday(ret.val[1]) = 0
          /\ bcweek_values(ret.val[1]).year_id = call.year_id
          /\ bcweek_values(ret.val[1]).week_id = call.week_id[1]
          /\ ret.val[1] >= MondayOnOrBefore(Date(call.year_id, 1, 1))
====
